---- MODULE Spec2Model ----
(***************************************************************************)
(* A model of src/app.py, the steel-rebar shipment dashboard:              *)
(*   - load_data: header reconciliation, per-row coercion, derived fields  *)
(*   - load_logistics_data and the project selector's option list          *)
(*   - display_metrics_cards: the summary metrics                          *)
(*   - the logistics status overlay (logistics_status.csv): load, save,    *)
(*     merge_logistics_with_status, update_logistics_status                *)
(*                                                                         *)
(* Strings of the source that are written in Chinese are spelled in pinyin *)
(* here (the module's string literals are ASCII):                          *)
(*   BiaoDuanMingCheng 标段名称   WuZiMingCheng 物资名称                   *)
(*   XuQiuLiang 需求量            XiaDanShiJian 下单时间                   *)
(*   YiFaLiang 已发量             ShengYuLiang 剩余量                      *)
(*   JiHuaJinChangShiJian 计划进场时间   ChaoQiTianShu 超期天数            *)
(*   XiangMuBuMingCheng 项目部名称 (AppConfig.PROJECT_COLUMN)              *)
(*   GangChang 钢厂   GuiGeXingHao 规格型号   JiaoHuoShiJian 交货时间      *)
(*   XiangMuBu 项目部   DaoHuoZhuangTai 到货状态                           *)
(*   WeiZhiDingWuZi 未指定物资   WeiZhiDingXiangMuBu 未指定项目部          *)
(*   WeiZhiDingGangChang 未指定钢厂                                        *)
(*   YiDaoHuo 已到货   WeiDaoHuo 未到货                                    *)
(*   ZhongTieWuMaoChengDuFenGongSi 中铁物贸成都分公司 (headquarters view)  *)
(* A text cell is a sequence of one-character strings; a label of the      *)
(* source that is only ever compared as a whole is a one-element sequence. *)
(***************************************************************************)
EXTENDS Integers, Sequences, FiniteSets, TLC

\* ------------------------------------------------------------------ bounds
\* Rows of an input sheet.
MaxRows == 2
\* Time runs over 0..MaxTime, in units of 1/UnitsPerDay of a day.
MaxTime == 3
UnitsPerDay == 2
\* Records of the logistics sheet the overlay is exercised on.
NumRecords == 2
\* Calls of update_logistics_status in one behaviour.
MaxCalls == 3

\* ------------------------------------------------------------ small helpers
Max(a, b) == IF a >= b THEN a ELSE b

Range(s) == {s[i] : i \in DOMAIN s}

\* Sequences over S of length 0..n.
SeqUpTo(S, n) == UNION {[1..k -> S] : k \in 0..n}

RECURSIVE SumSeq(_)
SumSeq(s) == IF s = <<>> THEN 0 ELSE Head(s) + SumSeq(Tail(s))

RECURSIVE MaxSeq(_)
\* The largest element of a non-empty sequence of integers.
MaxSeq(s) == IF Len(s) = 1 THEN s[1] ELSE Max(Head(s), MaxSeq(Tail(s)))

\* ------------------------------------------------------------- text cells
\* A spreadsheet cell holding no value reads as the float nan; FloatNaN and
\* NoneObj stand for the two null objects a cell can hold.
FloatNaN == <<"NaN">>
NoneObj == <<"NoneObj">>
NAN == <<"n", "a", "n">>
NONE == <<"N", "o", "n", "e">>

Digits == {"0", "1", "2", "3", "4", "5", "6", "7", "8", "9"}

DigitVal(c) ==
    CASE c = "0" -> 0 [] c = "1" -> 1 [] c = "2" -> 2 [] c = "3" -> 3
      [] c = "4" -> 4 [] c = "5" -> 5 [] c = "6" -> 6 [] c = "7" -> 7
      [] c = "8" -> 8 [] c = "9" -> 9

\* series.astype(str), one cell.
astype_str(cell) ==
    IF cell = FloatNaN THEN NAN
    ELSE IF cell = NoneObj THEN NONE
    ELSE cell

IsSpace(c) == c = " "

RECURSIVE lstrip(_)
lstrip(s) == IF s # <<>> /\ IsSpace(Head(s)) THEN lstrip(Tail(s)) ELSE s

RECURSIVE rstrip(_)
rstrip(s) ==
    IF s # <<>> /\ IsSpace(s[Len(s)]) THEN rstrip(SubSeq(s, 1, Len(s) - 1)) ELSE s

\* series.str.strip(), one cell.
strip(s) == rstrip(lstrip(s))

\* ------------------------------------------------- safe_convert_to_numeric
\* The characters the regex [^\d.-] keeps.
IsNumChar(c) == c \in Digits \cup {".", "-"}

RECURSIVE DigitsToNat(_)
DigitsToNat(s) ==
    IF s = <<>> THEN 0
    ELSE 10 * DigitsToNat(SubSeq(s, 1, Len(s) - 1)) + DigitVal(s[Len(s)])

CountChar(s, c) == Cardinality({i \in DOMAIN s : s[i] = c})

\* The part of s before its first "." (all of s when it has none).
BeforeDot(s) ==
    IF \E i \in DOMAIN s : s[i] = "."
    THEN SubSeq(s, 1, (CHOOSE i \in DOMAIN s :
                          s[i] = "." /\ \A j \in 1..(i - 1) : s[j] # ".") - 1)
    ELSE s

\* pd.to_numeric(errors='coerce') of one cleaned cell, which holds only digits,
\* "." and "-": [nan |-> TRUE] when it is no number, else the number's whole
\* part (rounded toward zero, as astype(int) will) and sign.
to_numeric(s) ==
    LET neg == s # <<>> /\ Head(s) = "-"
        body == IF neg THEN Tail(s) ELSE s
        valid == /\ CountChar(body, "-") = 0
                 /\ CountChar(body, ".") <= 1
                 /\ \E i \in DOMAIN body : body[i] \in Digits
        whole == DigitsToNat(BeforeDot(body))
    IN  IF valid THEN [nan |-> FALSE, whole |-> IF neg THEN 0 - whole ELSE whole]
        ELSE [nan |-> TRUE, whole |-> 0]

\* load_data.safe_convert_to_numeric followed by .astype(int), one cell.
safe_convert_to_numeric(cell, default) ==
    LET str_series == astype_str(cell)
        cleaned == SelectSeq(str_series, IsNumChar)
        replaced == IF cleaned \in {<<>>, NAN, NONE} THEN <<"0">> ELSE cleaned
        n == to_numeric(replaced)
    IN  IF n.nan THEN default ELSE n.whole

\* ------------------------------------------------------------- date cells
\* A date cell is a time in 0..MaxTime when the tolerant parser can read it,
\* BlankDate for an empty cell and BadDate for text such as "not-a-date".
BlankDate == -1
BadDate == -2
NaT == -9

\* pd.to_datetime(errors='coerce').dt.tz_localize(None), one cell.
to_datetime(cell) == IF cell >= 0 THEN cell ELSE NaT

\* The calendar day of a time.
DateOf(t) == t \div UnitsPerDay

\* ------------------------------------------------------------- data frames
\* A frame: its column names and its rows, each a function on the columns.
\* pd.DataFrame() is the frame with no column and no row.
EmptyFrame == [columns |-> {}, rows |-> <<>>]

\* df.rename(columns={alt: std}, inplace=True)
Rename(frame, alt, std) ==
    LET cols == (frame.columns \ {alt}) \cup {std}
    IN  [columns |-> cols,
         rows |-> [i \in DOMAIN frame.rows |->
                     [h \in cols |-> IF h = std THEN frame.rows[i][alt]
                                     ELSE frame.rows[i][h]]]]

\* df[h] = F(row), row by row.
SetCol(frame, h, F(_)) ==
    LET cols == frame.columns \cup {h}
    IN  [columns |-> cols,
         rows |-> [i \in DOMAIN frame.rows |->
                     [k \in cols |-> IF k = h THEN F(frame.rows[i])
                                     ELSE frame.rows[i][k]]]]

\* AppConfig.BACKUP_COL_MAPPING, in the dict's order:
\*   标段名称: 项目标段, 工程名称, 标段      物资名称: 材料名称, 品名, 名称
\*   需求量: 需求吨位, 计划量, 数量          下单时间: 创建时间, 日期, 录入时间
BACKUP_COL_MAPPING ==
    << [std |-> "BiaoDuanMingCheng",
        alts |-> <<"XiangMuBiaoDuan", "GongChengMingCheng", "BiaoDuan">>],
       [std |-> "WuZiMingCheng",
        alts |-> <<"CaiLiaoMingCheng", "PinMing", "MingCheng">>],
       [std |-> "XuQiuLiang",
        alts |-> <<"XuQiuDunWei", "JiHuaLiang", "ShuLiang">>],
       [std |-> "XiaDanShiJian",
        alts |-> <<"ChuangJianShiJian", "RiQi", "LuRuShiJian">>] >>

PROJECT_COLUMN == "XiangMuBuMingCheng"

REQUIRED_COLS ==
    <<"BiaoDuanMingCheng", "WuZiMingCheng", "XiaDanShiJian", "XuQiuLiang">>

\* The scan that renames the last alias found instead of the first.
ScanAliases_from_last(frame, std, alts, i) ==
    LET present == {j \in i..Len(alts) : alts[j] \in frame.columns}
    IN  IF present = {} \/ std \in frame.columns THEN frame
        ELSE Rename(frame, alts[CHOOSE j \in present : \A k \in present : k <= j], std)

RECURSIVE ScanAliases(_, _, _, _)
\* The inner loop of the reconciliation: the first alias found is renamed.
ScanAliases(frame, std, alts, i) ==
    IF i > Len(alts) THEN frame
    ELSE IF alts[i] \in frame.columns /\ std \notin frame.columns
         THEN Rename(frame, alts[i], std)
         ELSE ScanAliases(frame, std, alts, i + 1)

RECURSIVE Reconcile(_, _)
\* The outer loop, over BACKUP_COL_MAPPING from entry k on.
Reconcile(frame, k) ==
    IF k > Len(BACKUP_COL_MAPPING) THEN frame
    ELSE Reconcile(ScanAliases(frame, BACKUP_COL_MAPPING[k].std,
                               BACKUP_COL_MAPPING[k].alts, 1), k + 1)

\* The required-column check that forgets the first required column.
missing_cols_after_first(frame) ==
    SelectSeq(Tail(REQUIRED_COLS), LAMBDA c : c \notin frame.columns)

\* missing_cols = [col for col in REQUIRED_COLS if col not in df.columns]
missing_cols(frame) == SelectSeq(REQUIRED_COLS, LAMBDA c : c \notin frame.columns)

\* replace_blank that knows the empty string only.
replace_blank_only_empty(s, default) == IF s = <<>> THEN default ELSE s

\* .replace({"": d, "nan": d, "None": d, None: d}) after astype(str).str.strip()
replace_blank(s, default) == IF s \in {<<>>, NAN, NONE} THEN default ELSE s

\* (df["需求量"] - df["已发量"]).clip(lower=0).astype(int), one row.
remaining_quantity(demand, shipped) == Max(demand - shipped, 0)

\* overdue_days as a difference of calendar dates (now truncated to the date).
overdue_days_by_date(now_ts, planned) ==
    IF planned = NaT THEN 0
    ELSE Max((now_ts \div UnitsPerDay) - (planned \div UnitsPerDay), 0)

\* ((pd.Timestamp.now() - planned).dt.days.clip(lower=0).fillna(0).astype(int)),
\* one row: the whole days of the difference, floored, then clipped.
overdue_days(now_ts, planned) ==
    IF planned = NaT THEN 0
    ELSE Max((now_ts - planned) \div UnitsPerDay, 0)

\* load_data: [error, missing, df]. error is "NoFile" (find_data_file found
\* nothing), "MissingCols" (required columns missing), "LoadFailed" (the
\* except branch) or "None"; df is pd.DataFrame() in every error case.
load_data(sheet, now_ts) ==
    LET f0 == [columns |-> sheet.columns, rows |-> sheet.rows]
        f1 == Reconcile(f0, 1)
        missing == missing_cols(f1)
        f2 == SetCol(f1, "WuZiMingCheng",
                     LAMBDA r : replace_blank(strip(astype_str(r["WuZiMingCheng"])),
                                              <<"WeiZhiDingWuZi">>))
        \* df.iloc[:, 17]: the 18th column by position, here the column Col17
        f3 == SetCol(f2, PROJECT_COLUMN,
                     LAMBDA r : replace_blank(strip(astype_str(r["Col17"])),
                                              <<"WeiZhiDingXiangMuBu">>))
        f4 == SetCol(f3, "XiaDanShiJian", LAMBDA r : to_datetime(r["XiaDanShiJian"]))
        f5 == [f4 EXCEPT !.rows = SelectSeq(f4.rows, LAMBDA r : r["XiaDanShiJian"] # NaT)]
        f6 == SetCol(f5, "XuQiuLiang",
                     LAMBDA r : safe_convert_to_numeric(r["XuQiuLiang"], 0))
        f7 == SetCol(f6, "YiFaLiang",
                     LAMBDA r : safe_convert_to_numeric(r["YiFaLiang"], 0))
        f8 == SetCol(f7, "ShengYuLiang",
                     LAMBDA r : remaining_quantity(r["XuQiuLiang"], r["YiFaLiang"]))
        f9 == IF "JiHuaJinChangShiJian" \in f8.columns
              THEN LET g == SetCol(f8, "JiHuaJinChangShiJian",
                                   LAMBDA r : to_datetime(r["JiHuaJinChangShiJian"]))
                   IN  SetCol(g, "ChaoQiTianShu",
                              LAMBDA r : overdue_days(now_ts, r["JiHuaJinChangShiJian"]))
              ELSE SetCol(f8, "ChaoQiTianShu", LAMBDA r : 0)
        failed == [error |-> "LoadFailed", missing |-> <<>>, df |-> EmptyFrame]
    IN  IF ~sheet.found
        THEN [error |-> "NoFile", missing |-> <<>>, df |-> EmptyFrame]
        ELSE IF missing # <<>>
        THEN [error |-> "MissingCols", missing |-> missing, df |-> EmptyFrame]
        \* fewer than 18 columns: df.iloc[:, 17] raises IndexError
        ELSE IF "Col17" \notin f2.columns THEN failed
        \* no 已发量 column: df.get("已发量", 0) is the int 0, and
        \* safe_convert_to_numeric calls .astype on it: AttributeError
        ELSE IF "YiFaLiang" \notin f6.columns THEN failed
        ELSE [error |-> "None", missing |-> <<>>, df |-> f9]

\* ------------------------------------------------------- load_logistics_data
\* The columns of AppConfig.LOGISTICS_COLUMNS that the fingerprint and the
\* selector read; the others (单位, 数量, 收货地址, 联系人, 联系方式, 到货状态)
\* pass through unread.
LOGISTICS_KEY_COLUMNS ==
    <<"GangChang", "WuZiMingCheng", "GuiGeXingHao", "JiaoHuoShiJian", "XiangMuBu">>

\* df["项目部"]...replace({"未指定项目部": "", "nan": "", "None": "", None: ""})
replace_project(s) ==
    IF s \in {<<"WeiZhiDingXiangMuBu">>, NAN, NONE} THEN <<>> ELSE s

\* generate_record_id: the md5 of the five key fields joined by "|", taken as
\* injective: the fingerprint is the tuple of the fields' str().
generate_record_id(row) ==
    << astype_str(row["GangChang"]), astype_str(row["WuZiMingCheng"]),
       astype_str(row["GuiGeXingHao"]), row["JiaoHuoShiJian"],
       astype_str(row["XiangMuBu"]) >>

\* load_logistics_data: the frame of the logistics sheet, or a frame with the
\* columns and no row when there is no file.
load_logistics_data(ls) ==
    LET cols == Range(LOGISTICS_KEY_COLUMNS)
        \* a missing column is created holding ""
        f0 == [columns |-> cols,
               rows |-> [i \in DOMAIN ls.rows |->
                           [h \in cols |-> IF h \in ls.columns THEN ls.rows[i][h]
                                           ELSE IF h = "JiaoHuoShiJian" THEN BlankDate
                                           ELSE <<>>]]]
        f1 == SetCol(f0, "WuZiMingCheng",
                     LAMBDA r : replace_blank(strip(astype_str(r["WuZiMingCheng"])),
                                              <<"WeiZhiDingWuZi">>))
        f2 == SetCol(f1, "GangChang",
                     LAMBDA r : replace_blank(strip(astype_str(r["GangChang"])),
                                              <<"WeiZhiDingGangChang">>))
        f3 == SetCol(f2, "XiangMuBu",
                     LAMBDA r : replace_project(strip(astype_str(r["XiangMuBu"]))))
        f4 == SetCol(f3, "JiaoHuoShiJian", LAMBDA r : to_datetime(r["JiaoHuoShiJian"]))
        f5 == SetCol(f4, "record_id", LAMBDA r : generate_record_id(r))
    IN  IF ~ls.found
        THEN [columns |-> cols, rows |-> <<>>]
        ELSE f5

\* The headquarters entry of the project selector.
HQ == <<"ZhongTieWuMaoChengDuFenGongSi">>

\* show_project_selection: the set of the selector's project options besides
\* the headquarters entry (the source sorts them into a list).
valid_projects(ldf) ==
    {p \in {ldf.rows[i]["XiangMuBu"] : i \in DOMAIN ldf.rows} : p # <<>>}

\* ----------------------------------------------------- display_metrics_cards
Col(frame, h) == [i \in DOMAIN frame.rows |-> frame.rows[i][h]]

\* Nothing is computed or rendered.
NoMetrics == [rendered |-> FALSE]

\* display_metrics_cards with the pending quantity taken as total - shipped.
display_metrics_cards_pending_by_difference(filtered_df) ==
    IF filtered_df.rows = <<>> THEN NoMetrics
    ELSE LET overdue == Len(SelectSeq(Col(filtered_df, "ChaoQiTianShu"),
                                      LAMBDA d : d > 0))
         IN  [rendered |-> TRUE,
              total |-> SumSeq(Col(filtered_df, "XuQiuLiang")),
              shipped |-> SumSeq(Col(filtered_df, "YiFaLiang")),
              pending |-> SumSeq(Col(filtered_df, "XuQiuLiang"))
                          - SumSeq(Col(filtered_df, "YiFaLiang")),
              overdue |-> overdue,
              max_overdue |-> IF overdue > 0
                              THEN MaxSeq(Col(filtered_df, "ChaoQiTianShu"))
                              ELSE 0]

display_metrics_cards(filtered_df) ==
    IF filtered_df.rows = <<>> THEN NoMetrics
    ELSE LET overdue == Len(SelectSeq(Col(filtered_df, "ChaoQiTianShu"),
                                      LAMBDA d : d > 0))
         IN  [rendered |-> TRUE,
              total |-> SumSeq(Col(filtered_df, "XuQiuLiang")),
              shipped |-> SumSeq(Col(filtered_df, "YiFaLiang")),
              pending |-> SumSeq(Col(filtered_df, "ShengYuLiang")),
              overdue |-> overdue,
              max_overdue |-> IF overdue > 0
                              THEN MaxSeq(Col(filtered_df, "ChaoQiTianShu"))
                              ELSE 0]

\* The first tab of show_data_panel: [error, shown, metrics]. shown is the
\* date_range_df, the rows of the project whose order date lies in
\* start_date..end_date.
show_data_panel(df, project, start_date, end_date) ==
    LET filtered_df ==
            IF project = HQ THEN df
            ELSE [df EXCEPT !.rows =
                      SelectSeq(df.rows, LAMBDA r : r[PROJECT_COLUMN] = project)]
        date_range_df ==
            [filtered_df EXCEPT !.rows =
                 SelectSeq(filtered_df.rows,
                           LAMBDA r : /\ DateOf(r["XiaDanShiJian"]) >= start_date
                                      /\ DateOf(r["XiaDanShiJian"]) <= end_date)]
    IN  IF start_date > end_date
        THEN [error |-> "InvalidRange", shown |-> <<>>, metrics |-> NoMetrics]
        \* the frame of a failed load has no column: KeyError
        ELSE IF "XiaDanShiJian" \notin df.columns
        THEN [error |-> "KeyError", shown |-> <<>>, metrics |-> NoMetrics]
        ELSE IF date_range_df.rows # <<>>
        THEN [error |-> "None", shown |-> date_range_df.rows,
              metrics |-> display_metrics_cards(date_range_df)]
        ELSE [error |-> "NoData", shown |-> <<>>, metrics |-> NoMetrics]

\* ------------------------------------------------- the status overlay store
\* AppConfig.STATUS_OPTIONS and the two blank values the source tells apart:
\* the empty string and the single space.
YiDaoHuo == <<"YiDaoHuo">>
WeiDaoHuo == <<"WeiDaoHuo">>
EmptyStr == <<>>
Space == <<" ">>

\* logistics_status.csv: whether it exists, and its rows as written (the
\* update_time column is not read by any decision and is left out). A
\* record_id is a hex digest, which read_csv reads back as the same string.
NoStatusFile == [exists |-> FALSE, rows |-> <<>>]

\* One cell written by to_csv and read back by read_csv: an empty field
\* reads as the float nan.
csv_read_cell(text) == IF text = EmptyStr THEN FloatNaN ELSE text

\* to_csv of one cell: nan is written as the empty field.
csv_write_cell(cell) == IF cell = FloatNaN THEN EmptyStr ELSE cell

\* load_logistics_status: the rows of the status frame.
load_logistics_status(f) ==
    IF f.exists
    THEN [i \in DOMAIN f.rows |->
             [record_id |-> f.rows[i].record_id,
              DaoHuoZhuangTai |-> csv_read_cell(f.rows[i].DaoHuoZhuangTai)]]
    ELSE <<>>

\* The file save_logistics_status writes when to_csv succeeds.
written_file(status_df) ==
    [exists |-> TRUE,
     rows |-> [i \in DOMAIN status_df |->
                 [record_id |-> status_df[i].record_id,
                  DaoHuoZhuangTai |-> csv_write_cell(status_df[i].DaoHuoZhuangTai)]]]

RECURSIVE LeftMerge(_, _, _)
\* pd.merge(left, right, on="record_id", how="left") from left row i on: one
\* output row per matching right row, and one holding nan when none matches.
LeftMerge(left, right, i) ==
    IF i > Len(left) THEN <<>>
    ELSE LET hits == SelectSeq(right, LAMBDA r : r.record_id = left[i]["record_id"])
             out == IF hits = <<>>
                    THEN << [record_id |-> left[i]["record_id"],
                             DaoHuoZhuangTai_status |-> FloatNaN] >>
                    ELSE [k \in DOMAIN hits |->
                             [record_id |-> left[i]["record_id"],
                              DaoHuoZhuangTai_status |-> hits[k].DaoHuoZhuangTai]]
         IN  out \o LeftMerge(left, right, i + 1)

\* .fillna("")
fillna_empty(cell) == IF cell = FloatNaN THEN EmptyStr ELSE cell

\* merge_logistics_with_status: the rows [record_id, DaoHuoZhuangTai] of the
\* merged frame (the other columns of logistics_df pass through).
merge_logistics_with_status(ldf, f) ==
    LET status_df == load_logistics_status(f)
    IN  IF ldf.rows = <<>> THEN <<>>
        ELSE IF status_df = <<>>
        THEN [i \in DOMAIN ldf.rows |->
                 [record_id |-> ldf.rows[i]["record_id"], DaoHuoZhuangTai |-> Space]]
        ELSE LET merged == LeftMerge(ldf.rows, status_df, 1)
             IN  [i \in DOMAIN merged |->
                     [record_id |-> merged[i].record_id,
                      DaoHuoZhuangTai |-> fillna_empty(merged[i].DaoHuoZhuangTai_status)]]

\* new_status = "" if None, then str(new_status).strip()
normalize_status(new_status) ==
    IF new_status = NoneObj THEN EmptyStr ELSE strip(new_status)

\* The flag without the look at the stored status.
send_notification_flag_any_save(status_df, record_id, new_status) ==
    new_status = WeiDaoHuo

\* Lines 378-382: whether the call is a transition into 未到货.
send_notification_flag(status_df, record_id, new_status) ==
    /\ new_status = WeiDaoHuo
    /\ LET existing_status == SelectSeq(status_df, LAMBDA r : r.record_id = record_id)
       IN  \/ Len(existing_status) = 0
           \/ existing_status[1].DaoHuoZhuangTai # WeiDaoHuo

\* Lines 384-397: the status frame after the change.
mutate_status(status_df, record_id, new_status) ==
    IF \E i \in DOMAIN status_df : status_df[i].record_id = record_id
    THEN IF new_status = Space
         THEN SelectSeq(status_df, LAMBDA r : r.record_id # record_id)
         ELSE [i \in DOMAIN status_df |->
                  IF status_df[i].record_id = record_id
                  THEN [status_df[i] EXCEPT !.DaoHuoZhuangTai = new_status]
                  ELSE status_df[i]]
    ELSE IF new_status # Space
         THEN Append(status_df, [record_id |-> record_id, DaoHuoZhuangTai |-> new_status])
         ELSE status_df

\* What the webhook does with a post: answers 200, answers another code, or
\* the request raises.
PostOutcomes == {"200", "Non200", "Exception"}

\* send_feishu_notification without its try/except: the request's exception
\* leaves the function ("Raise").
send_feishu_notification_uncaught(post) ==
    IF post = "200" THEN "True" ELSE IF post = "Exception" THEN "Raise" ELSE "False"

\* send_feishu_notification: "True" or "False"; the request's exception is
\* caught and reported, and the function returns False.
send_feishu_notification(post) ==
    IF post = "200" THEN "True" ELSE "False"

\* update_logistics_status from the frame status_df it has read, on the file
\* f as it is when the call saves: the file after the call, what the call
\* returns ("True", "False", or "Raised" when an exception leaves it), and
\* whether requests.post was attempted. save_ok and post are the environment's
\* answers to to_csv and to the post. original_row, when given, is a row of
\* the rendered table, whose 交货时间 is a time.
update_after_load(status_df, f, record_id, raw_status, has_row, save_ok, post) ==
    LET new_status == normalize_status(raw_status)
        send_notification == send_notification_flag(status_df, record_id, new_status)
        changed == mutate_status(status_df, record_id, new_status)
        attempted == save_ok /\ send_notification /\ has_row
        sent == IF attempted THEN send_feishu_notification(post) ELSE "False"
    IN  [file |-> IF save_ok THEN written_file(changed) ELSE f,
         new_status |-> new_status,
         attempted |-> attempted,
         toast |-> sent = "True",
         result |-> IF ~save_ok THEN "False"
                    ELSE IF sent = "Raise" THEN "Raised"
                    ELSE "True"]

\* update_logistics_status, run without interruption on the file f.
update_logistics_status(f, record_id, raw_status, has_row, save_ok, post) ==
    update_after_load(load_logistics_status(f), f, record_id, raw_status,
                      has_row, save_ok, post)

\* ------------------------------------------------------------ the session
\* st.session_state: project_selected, selected_project, need_password (a key
\* that is absent reads False through .get) and temp_selected_project (NoKey
\* when absent). Two fields record what happened: entered_by, the button that
\* last set project_selected, and password_error, whether the last run showed
\* the wrong-password message.
NoKey == <<"NoKey">>

\* main, lines 699-702: the defaults of a new session.
InitialSession ==
    [project_selected |-> FALSE, selected_project |-> HQ,
     need_password |-> FALSE, temp_selected_project |-> NoKey,
     entered_by |-> "None", password_error |-> FALSE]

\* The password show_project_selection compares with.
PASSWORD == "123456"

\* The confirm button that enters whatever project is selected.
confirm_project_without_password(s, selected) ==
    [s EXCEPT !.project_selected = TRUE, !.selected_project = selected,
              !.entered_by = "Confirm", !.password_error = FALSE]

\* show_project_selection, the button 确认进入 (lines 575-582).
confirm_project(s, selected) ==
    IF selected = HQ
    THEN [s EXCEPT !.temp_selected_project = selected, !.need_password = TRUE,
                   !.password_error = FALSE]
    ELSE [s EXCEPT !.project_selected = TRUE, !.selected_project = selected,
                   !.entered_by = "Confirm", !.password_error = FALSE]

\* show_project_selection, the button 验证密码 (lines 587-598).
verify_password(s, password) ==
    IF password = PASSWORD
    THEN [s EXCEPT !.project_selected = TRUE,
                   !.selected_project = s.temp_selected_project,
                   !.need_password = FALSE, !.temp_selected_project = NoKey,
                   !.entered_by = "VerifyOk", !.password_error = FALSE]
    ELSE [s EXCEPT !.password_error = TRUE]

\* show_data_panel, the button 返回 (lines 613-615).
back_to_selection(s) == [s EXCEPT !.project_selected = FALSE]

\* ------------------------------------------------------------------- state
VARIABLES
    sheet,          \* the order sheet of the data file: [found, columns, rows]
    now,            \* the wall clock, pd.Timestamp.now()
    loaded,         \* the cached result of load_data and the time it ran
    panel,          \* what the first tab of show_data_panel last rendered
    lsheet,         \* the logistics sheet of the data file
    logistics_df,   \* the result of load_logistics_data
    options,        \* the project selector's options
    file,           \* logistics_status.csv
    view,           \* the last merge_logistics_with_status and the file it read
    posts,          \* per record_id, the requests.post calls attempted
    transitions,    \* per record_id, the saved changes into 未到货
    last,           \* the last update_logistics_status call
    calls,          \* the number of update_logistics_status calls
    writers,        \* the concurrent sessions inside update_logistics_status
    session         \* st.session_state of one browser session

vars == <<sheet, now, loaded, panel, lsheet, logistics_df, options,
          file, view, posts, transitions, last, calls, writers, session>>

varsOrder == <<sheet, now, loaded, panel>>
varsLogistics == <<lsheet, logistics_df, options>>
varsOverlay == <<file, view, posts, transitions, last, calls>>

\* ------------------------------------------------------------ input sheets
AllCols ==
    {"BiaoDuanMingCheng", "WuZiMingCheng", "XiaDanShiJian", "XuQiuLiang",
     "YiFaLiang", "JiHuaJinChangShiJian", "Col17"}

OrderRow(cols, demand, shipped, order, planned, material, project) ==
    [h \in cols |->
        CASE h = "BiaoDuanMingCheng" -> <<"A">>
          [] h = "WuZiMingCheng" -> material
          [] h = "XiaDanShiJian" -> order
          [] h = "XuQiuLiang" -> demand
          [] h = "YiFaLiang" -> shipped
          [] h = "JiHuaJinChangShiJian" -> planned
          [] h = "Col17" -> project]

\* Raw quantity cells: "3", "-5", "1-2t"; "5", "-2.5", an empty cell.
DemandCells == {<<"3">>, <<"-", "5">>, <<"1", "-", "2", "t">>}
ShippedCells == {<<"5">>, <<"-", "2", ".", "5">>, FloatNaN}

SheetsOver(colsets, Rows(_)) ==
    UNION {{[found |-> TRUE, columns |-> c, rows |-> rs] :
               rs \in SeqUpTo(Rows(c), MaxRows)} : c \in colsets}

\* Sheets that vary the quantities, with and without the 已发量 column.
QtySheets ==
    SheetsOver({AllCols, AllCols \ {"YiFaLiang"}},
               LAMBDA c : {OrderRow(c, d, s, 0, 0, <<"H">>, <<"P">>) :
                              d \in DemandCells, s \in ShippedCells})

\* Sheets that vary the planned-arrival time, with and without its column.
DateSheets ==
    SheetsOver({AllCols, AllCols \ {"JiHuaJinChangShiJian"}},
               LAMBDA c : {OrderRow(c, <<"3">>, <<"5">>, 0, p, <<"H">>, <<"P">>) :
                              p \in {BlankDate, BadDate} \cup (0..MaxTime)})

\* Sheets that vary the order time of rows of positive and negative demand.
OrderSheets ==
    SheetsOver({AllCols},
               LAMBDA c : {OrderRow(c, d, <<"1">>, o, 0, <<"H">>, <<"P">>) :
                              d \in {<<"3">>, <<"-", "5">>},
                              o \in {UnitsPerDay, BadDate}})

NoSheet == [found |-> FALSE, columns |-> {}, rows |-> <<>>]

NotLoaded == [at |-> 0, error |-> "NotLoaded", missing |-> <<>>, df |-> EmptyFrame]
NoPanel == [error |-> "NotShown", shown |-> <<>>, metrics |-> NoMetrics]

\* No merged table has been rendered.
NoView == [rendered |-> FALSE, rows |-> <<>>, file |-> NoStatusFile]

\* No call of update_logistics_status has been made.
NoCall ==
    [record_id |-> <<>>, new_status |-> <<>>, prev |-> <<>>, save_ok |-> FALSE,
     attempted |-> FALSE, post |-> "None", result |-> "None"]

\* The state before the script first runs, but for the sheets.
Blank ==
    /\ now = 0
    /\ loaded = NotLoaded
    /\ panel = NoPanel
    /\ file = NoStatusFile
    /\ view = NoView
    /\ posts = [r \in {} |-> 0]
    /\ transitions = [r \in {} |-> 0]
    /\ last = NoCall
    /\ calls = 0
    /\ writers = <<>>
    /\ session = InitialSession

\* Nothing of the logistics sheet is loaded.
NoLogistics ==
    /\ logistics_df = [columns |-> {}, rows |-> <<>>]
    /\ options = {}

\* ------------------------------------------------- the order pipeline: steps
\* main: load_data runs (the cache holds nothing, or has expired).
LoadData ==
    /\ loaded' = [at |-> now] @@ load_data(sheet, now)
    /\ UNCHANGED <<sheet, now, panel>>
    /\ UNCHANGED <<varsLogistics, varsOverlay, writers, session>>

\* Time passes.
Tick ==
    /\ now < MaxTime
    /\ now' = now + 1
    /\ UNCHANGED <<sheet, loaded, panel>>
    /\ UNCHANGED <<varsLogistics, varsOverlay, writers, session>>

\* The projects a session can have selected.
PanelProjects == {HQ, <<"P">>, <<"Q">>}

\* show_data_panel renders its first tab for a project and a date range.
ShowDataPanel ==
    /\ loaded.error # "NotLoaded"
    /\ \E project \in PanelProjects, start_date, end_date \in 0..DateOf(MaxTime) :
           panel' = show_data_panel(loaded.df, project, start_date, end_date)
    /\ UNCHANGED <<sheet, now, loaded>>
    /\ UNCHANGED <<varsLogistics, varsOverlay, writers, session>>

BaseLSheet == [found |-> TRUE, columns |-> Range(LOGISTICS_KEY_COLUMNS), rows |-> <<>>]

InitLoad ==
    /\ sheet \in QtySheets \cup DateSheets \cup OrderSheets \cup {NoSheet}
    /\ lsheet = BaseLSheet
    /\ NoLogistics
    /\ Blank

NextLoad == LoadData \/ Tick \/ ShowDataPanel

SpecLoad == InitLoad /\ [][NextLoad]_vars

\* ------------------------------------------- the categorical fields: steps
\* Raw categorical cells: a name, an empty cell, blanks; " P", None, "".
MaterialCells == {<<"H">>, FloatNaN, <<" ">>}
ProjectCells == {<<" ", "P">>, NoneObj, <<>>}

\* Sheets that vary the material and the 18th column, and sheets too narrow
\* to have an 18th column.
CatSheets ==
    SheetsOver({AllCols, AllCols \ {"Col17"}},
               LAMBDA c : {OrderRow(c, <<"3">>, <<"1">>, 0, 0, m, j) :
                              m \in MaterialCells, j \in ProjectCells})

LogisticsRow(cols, steel, material, project) ==
    [h \in cols |->
        CASE h = "GangChang" -> steel
          [] h = "WuZiMingCheng" -> material
          [] h = "GuiGeXingHao" -> <<"S">>
          [] h = "JiaoHuoShiJian" -> 0
          [] h = "XiangMuBu" -> project]

\* Logistics sheets that vary the supplier, the material and the department,
\* with and without the 项目部 column.
LogisticsSheets ==
    SheetsOver({Range(LOGISTICS_KEY_COLUMNS),
                Range(LOGISTICS_KEY_COLUMNS) \ {"XiangMuBu"}},
               LAMBDA c : {LogisticsRow(c, g, m, j) :
                              g \in {<<"G">>, NoneObj},
                              m \in {<<"H">>, <<" ">>},
                              j \in {<<"P">>, FloatNaN, <<" ">>,
                                     <<"WeiZhiDingXiangMuBu">>}})

\* An order sheet of one row whose material and department cells are empty.
BlankCatSheet ==
    [found |-> TRUE, columns |-> AllCols,
     rows |-> << OrderRow(AllCols, <<"3">>, <<"1">>, 0, 0, FloatNaN, NoneObj) >>]

\* show_project_selection: load_logistics_data, then the selector's options.
ShowProjectSelection ==
    /\ logistics_df' = load_logistics_data(lsheet)
    /\ options' = {HQ} \cup valid_projects(logistics_df')
    /\ UNCHANGED lsheet
    /\ UNCHANGED <<varsOrder, varsOverlay, writers, session>>

InitCat ==
    /\ \/ sheet \in CatSheets /\ lsheet = BaseLSheet
       \/ sheet = BlankCatSheet /\ lsheet \in LogisticsSheets \cup {NoSheet}
    /\ NoLogistics
    /\ Blank

NextCat == LoadData \/ ShowProjectSelection

SpecCat == InitCat /\ [][NextCat]_vars

\* ------------------------------------------------- the header vocabulary: steps
\* The headers of the k-th canonical field: the canonical name, then its aliases.
FieldHeaders(k) == <<BACKUP_COL_MAPPING[k].std>> \o BACKUP_COL_MAPPING[k].alts

\* Which of a field's four headers a sheet carries: none, the canonical name,
\* one alias, later aliases only, the canonical name beside an alias, all aliases.
HeaderPatterns == {{}, {1}, {2}, {3}, {4}, {3, 4}, {1, 2}, {2, 3, 4}}

\* The raw cell under the j-th header of the k-th field: each header of a field
\* holds a value of its own, so that the column renamed can be told.
HeaderCell(k, j) ==
    CASE BACKUP_COL_MAPPING[k].std = "XiaDanShiJian" -> j - 1
      [] BACKUP_COL_MAPPING[k].std = "XuQiuLiang" -> <<<<"1", "2", "3", "4">>[j]>>
      [] OTHER -> <<<<"A", "B", "C", "D">>[j]>>

\* The sheet that carries, of field k, the headers pat[k], and the 已发量 and
\* 18th columns; one row.
HeaderSheet(pat) ==
    LET cols == UNION {{FieldHeaders(k)[j] : j \in pat[k]} : k \in DOMAIN pat}
        cell(h) ==
            IF h = "YiFaLiang" THEN <<"1">>
            ELSE IF h = "Col17" THEN <<"P">>
            ELSE LET k == CHOOSE k \in DOMAIN pat : h \in Range(FieldHeaders(k))
                     j == CHOOSE j \in 1..4 : FieldHeaders(k)[j] = h
                 IN  HeaderCell(k, j)
        all == cols \cup {"YiFaLiang", "Col17"}
    IN  [found |-> TRUE, columns |-> all, rows |-> << [h \in all |-> cell(h)] >>]

HeaderSheets ==
    {HeaderSheet(pat) : pat \in [DOMAIN BACKUP_COL_MAPPING -> HeaderPatterns]}

InitHdr ==
    /\ sheet \in HeaderSheets
    /\ lsheet = BaseLSheet
    /\ NoLogistics
    /\ Blank

NextHdr == LoadData

SpecHdr == InitHdr /\ [][NextHdr]_vars

\* ------------------------------------------------ the status overlay: steps
\* The logistics sheet the overlay is exercised on: NumRecords records that
\* differ in their delivery time, and a second row of the first record.
OverlaySheet ==
    LET cols == Range(LOGISTICS_KEY_COLUMNS)
        row(k) == [LogisticsRow(cols, <<"G">>, <<"H">>, <<"P">>)
                       EXCEPT !["JiaoHuoShiJian"] = k]
    IN  [found |-> TRUE, columns |-> cols,
         rows |-> [i \in 1..(NumRecords + 1) |->
                     IF i <= NumRecords THEN row(i) ELSE row(1)]]

\* The record_ids of the loaded logistics frame.
RecordIds == {logistics_df.rows[i]["record_id"] : i \in DOMAIN logistics_df.rows}

\* What the data editor, or another caller, passes as the new status.
StatusInputs == {NoneObj, Space, YiDaoHuo, WeiDaoHuo}

\* The answers the webhook can give to a call: none when nothing is posted.
PostsFor(attempted) == IF attempted THEN PostOutcomes ELSE {"None"}

\* merge_logistics_with_status as show_logistics_tab calls it, and the file
\* it read.
Rendered(ldf, f) ==
    [rendered |-> TRUE, rows |-> merge_logistics_with_status(ldf, f), file |-> f]

Absent == <<"Absent">>

\* The status the file holds for a record_id, as written; Absent without a row.
Stored(f, rid) ==
    IF \E i \in DOMAIN f.rows : f.rows[i].record_id = rid
    THEN f.rows[CHOOSE i \in DOMAIN f.rows : f.rows[i].record_id = rid].DaoHuoZhuangTai
    ELSE Absent

\* show_logistics_tab with no edited row: the merged table is rendered.
RenderLogisticsTab ==
    /\ logistics_df.rows # <<>>
    /\ view' = Rendered(logistics_df, file)
    /\ UNCHANGED <<file, posts, transitions, last, calls>>
    /\ UNCHANGED <<varsOrder, varsLogistics, writers, session>>

\* show_logistics_tab with an edited row: the merged table is rendered, then
\* update_logistics_status is called for the row.
EditLogisticsStatus ==
    /\ calls < MaxCalls
    /\ \E i \in DOMAIN logistics_df.rows, raw \in StatusInputs,
          has_row \in BOOLEAN, save_ok \in BOOLEAN :
       \E post \in PostsFor(update_logistics_status(
                       file, logistics_df.rows[i]["record_id"], raw, has_row,
                       save_ok, "200").attempted) :
          LET rid == logistics_df.rows[i]["record_id"]
              r == update_logistics_status(file, rid, raw, has_row, save_ok, post)
          IN  /\ view' = Rendered(logistics_df, file)
              /\ file' = r.file
              /\ posts' = [posts EXCEPT ![rid] = @ + IF r.attempted THEN 1 ELSE 0]
              /\ transitions' =
                     [transitions EXCEPT ![rid] =
                         @ + IF /\ Stored(file, rid) # WeiDaoHuo
                                /\ Stored(r.file, rid) = WeiDaoHuo
                             THEN 1 ELSE 0]
              /\ last' = [record_id |-> rid, new_status |-> r.new_status,
                          prev |-> Stored(file, rid), save_ok |-> save_ok,
                          attempted |-> r.attempted, post |-> post,
                          result |-> r.result]
              /\ calls' = calls + 1
    /\ UNCHANGED <<varsOrder, varsLogistics, writers, session>>

Init ==
    /\ sheet = NoSheet
    /\ lsheet = OverlaySheet
    /\ logistics_df = load_logistics_data(OverlaySheet)
    /\ options = {}
    /\ now = 0
    /\ loaded = NotLoaded
    /\ panel = NoPanel
    /\ file = NoStatusFile
    /\ view = NoView
    /\ posts = [r \in RecordIds |-> 0]
    /\ transitions = [r \in RecordIds |-> 0]
    /\ last = NoCall
    /\ calls = 0
    /\ writers = <<>>
    /\ session = InitialSession

Next == RenderLogisticsTab \/ EditLogisticsStatus

Spec == Init /\ [][Next]_vars

\* ------------------------------------- the status overlay: concurrent sessions
\* Each browser session runs the script in a thread of its own, and the source
\* takes no lock: a session inside update_logistics_status has either not yet
\* read the file ("start"), read it ("loaded"), or saved and returned ("done").
\* Writer w edits the w-th record of the logistics frame. The read and the
\* write of the file are each taken as atomic.
WriterIds == 1..NumRecords

\* A file holding 未到货 for the first record.
OneRowFile ==
    written_file(<< [record_id |-> logistics_df.rows[1]["record_id"],
                     DaoHuoZhuangTai |-> WeiDaoHuo] >>)

\* load_logistics_status, line 372.
WriterLoad(w) ==
    /\ writers[w].pc = "start"
    /\ writers' = [writers EXCEPT ![w].pc = "loaded",
                                  ![w].status_df = load_logistics_status(file)]
    /\ UNCHANGED <<varsOverlay, varsOrder, varsLogistics, session>>

\* Lines 374-411: the change, save_logistics_status, the notification.
WriterSave(w) ==
    /\ writers[w].pc = "loaded"
    /\ \E save_ok \in BOOLEAN :
       \E post \in PostsFor(update_after_load(
                       writers[w].status_df, file, writers[w].record_id,
                       writers[w].raw, TRUE, save_ok, "200").attempted) :
          LET rid == writers[w].record_id
              r == update_after_load(writers[w].status_df, file, rid,
                                     writers[w].raw, TRUE, save_ok, post)
          IN  /\ file' = r.file
              /\ posts' = [posts EXCEPT ![rid] = @ + IF r.attempted THEN 1 ELSE 0]
              /\ transitions' =
                     [transitions EXCEPT ![rid] =
                         @ + IF /\ Stored(file, rid) # WeiDaoHuo
                                /\ Stored(r.file, rid) = WeiDaoHuo
                             THEN 1 ELSE 0]
              /\ writers' = [writers EXCEPT ![w].pc = "done",
                                            ![w].save_ok = save_ok,
                                            ![w].new_status = r.new_status,
                                            ![w].result = r.result]
    /\ UNCHANGED <<view, last, calls, varsOrder, varsLogistics, session>>

InitConc ==
    /\ sheet = NoSheet
    /\ lsheet = OverlaySheet
    /\ logistics_df = load_logistics_data(OverlaySheet)
    /\ options = {}
    /\ now = 0
    /\ loaded = NotLoaded
    /\ panel = NoPanel
    /\ view = NoView
    /\ last = NoCall
    /\ calls = 0
    /\ session = InitialSession
    /\ file \in {NoStatusFile, OneRowFile}
    /\ posts = [r \in RecordIds |-> 0]
    /\ transitions = [r \in RecordIds |-> 0]
    /\ \E raws \in [WriterIds -> {NoneObj, YiDaoHuo, WeiDaoHuo}] :
          writers = [w \in WriterIds |->
                        [pc |-> "start",
                         record_id |-> logistics_df.rows[w]["record_id"],
                         raw |-> raws[w], status_df |-> <<>>, save_ok |-> FALSE,
                         new_status |-> <<>>, result |-> "None"]]

NextConc == \E w \in WriterIds : WriterLoad(w) \/ WriterSave(w)

SpecConc == InitConc /\ [][NextConc]_vars

\* ------------------------------------------------------- the session: steps
\* Logistics sheets that vary the departments the selector offers; a
\* department may bear the headquarters' own name.
SessionSheets ==
    SheetsOver({Range(LOGISTICS_KEY_COLUMNS)},
               LAMBDA c : {LogisticsRow(c, <<"G">>, <<"H">>, j) :
                              j \in {<<"P">>, <<"Q">>, HQ, FloatNaN}})

\* What a user may type into the password field.
Passwords == {PASSWORD, "12345", ""}

\* main runs show_project_selection: the selector is rendered.
RenderSelection ==
    /\ ~session.project_selected
    /\ ShowProjectSelection

\* The user picks an option of the rendered selector and presses 确认进入.
ConfirmProject ==
    /\ ~session.project_selected
    /\ \E selected \in options : session' = confirm_project(session, selected)
    /\ UNCHANGED <<varsOrder, varsLogistics, varsOverlay, writers>>

\* The password field is shown; the user types and presses 验证密码.
VerifyPassword ==
    /\ ~session.project_selected
    /\ options # {}
    /\ session.need_password
    /\ \E password \in Passwords : session' = verify_password(session, password)
    /\ UNCHANGED <<varsOrder, varsLogistics, varsOverlay, writers>>

\* main runs show_data_panel; the user presses 返回.
Back ==
    /\ session.project_selected
    /\ session' = back_to_selection(session)
    /\ UNCHANGED <<varsOrder, varsLogistics, varsOverlay, writers>>

InitSession ==
    /\ sheet = NoSheet
    /\ lsheet \in SessionSheets
    /\ NoLogistics
    /\ Blank

NextSession == RenderSelection \/ ConfirmProject \/ VerifyPassword \/ Back

SpecSession == InitSession /\ [][NextSession]_vars

\* ------------------------------------------------ claims on the order pipeline
\* The rows load_data returned, when it returned a frame.
LoadedRows == IF loaded.error = "None" THEN loaded.df.rows ELSE <<>>

\* The parsed planned-arrival time of a loaded row; NaT without the column.
PlannedOf(row) ==
    IF "JiHuaJinChangShiJian" \in DOMAIN row THEN row["JiHuaJinChangShiJian"] ELSE NaT

\* The rows of the sheet whose order time parses.
DatedRows == SelectSeq(sheet.rows, LAMBDA r : r["XiaDanShiJian"] >= 0)

\* C1 (as claimed): after load_data every retained record has 需求量 >= 0 and
\* 已发量 >= 0, and a row of negative raw demand is kept (the output holds one
\* record per row whose order time parses).
C1_QuantitiesNonNegative ==
    loaded.error = "None" =>
        /\ Len(LoadedRows) = Len(DatedRows)
        /\ \A i \in DOMAIN LoadedRows :
               /\ LoadedRows[i]["XuQiuLiang"] >= 0
               /\ LoadedRows[i]["YiFaLiang"] >= 0

\* C2 (as claimed): every record of load_data has 剩余量 = max(需求量 - 已发量, 0),
\* hence 剩余量 >= 0; and a sheet without the 已发量 column loads with 已发量
\* counted as 0 in every record.
C2_RemainingIsClampedDifference ==
    /\ \A i \in DOMAIN LoadedRows :
          /\ LoadedRows[i]["ShengYuLiang"] =
                 Max(LoadedRows[i]["XuQiuLiang"] - LoadedRows[i]["YiFaLiang"], 0)
          /\ LoadedRows[i]["ShengYuLiang"] >= 0
    /\ ( /\ loaded.error # "NotLoaded"
         /\ sheet.found
         /\ "YiFaLiang" \notin sheet.columns
         /\ Range(REQUIRED_COLS) \cup {"Col17"} \subseteq sheet.columns )
       => /\ loaded.error = "None"
          /\ Len(LoadedRows) = Len(DatedRows)
          /\ \A i \in DOMAIN LoadedRows :
                 /\ LoadedRows[i]["YiFaLiang"] = 0
                 /\ LoadedRows[i]["ShengYuLiang"] = Max(LoadedRows[i]["XuQiuLiang"], 0)

\* C3 (as amended): 超期天数 is never negative and is the number of whole days
\* (24-hour periods) between the planned-arrival time and the wall clock at the
\* load: it is 0 exactly when the record has no (or an unparseable)
\* planned-arrival time or that time is less than one day before the load, and
\* a record planned for midnight of an earlier calendar day has 超期天数 > 0.
C3_OverdueIsWholeDaysElapsed ==
    \A i \in DOMAIN LoadedRows :
        LET od == LoadedRows[i]["ChaoQiTianShu"]
            planned == PlannedOf(LoadedRows[i])
        IN  /\ od >= 0
            /\ od = 0 <=> (planned = NaT \/ loaded.at - planned < UnitsPerDay)
            /\ (planned # NaT /\ loaded.at >= planned)
                  => /\ od * UnitsPerDay <= loaded.at - planned
                     /\ loaded.at - planned < (od + 1) * UnitsPerDay
            /\ ( /\ planned # NaT
                 /\ planned % UnitsPerDay = 0
                 /\ DateOf(planned) < DateOf(loaded.at) ) => od > 0

\* C3, witness: a loaded record planned for an earlier calendar day, less than
\* a day ago, whose 超期天数 is 0, beside one that is overdue.
C3_Witness ==
    /\ \E i \in DOMAIN LoadedRows :
          /\ PlannedOf(LoadedRows[i]) # NaT
          /\ DateOf(PlannedOf(LoadedRows[i])) < DateOf(loaded.at)
          /\ LoadedRows[i]["ChaoQiTianShu"] = 0
    /\ \E i \in DOMAIN LoadedRows : LoadedRows[i]["ChaoQiTianShu"] > 0

\* C3 (as claimed): 超期天数 is never negative and is 0 exactly when the record
\* has no planned-arrival time or its planned-arrival date is today or later,
\* today being the date of the load.
C3_OverdueByCalendarDay ==
    \A i \in DOMAIN LoadedRows :
        LET od == LoadedRows[i]["ChaoQiTianShu"]
            planned == PlannedOf(LoadedRows[i])
        IN  /\ od >= 0
            /\ od = 0 <=> (planned = NaT \/ DateOf(planned) >= DateOf(loaded.at))

RECURSIVE SumOver(_, _, _)
\* The sum of column h over the rows with index in S.
SumOver(rows, h, S) ==
    IF S = {} THEN 0
    ELSE LET i == CHOOSE i \in S : TRUE
         IN  rows[i][h] + SumOver(rows, h, S \ {i})

\* The indices of the overdue rows.
OverdueIdx(rows) == {i \in DOMAIN rows : rows[i]["ChaoQiTianShu"] > 0}

\* C10 (as amended): the metrics of a non-empty record set are the sums of
\* 需求量, 已发量 and 剩余量, the number of records with 超期天数 > 0, and the
\* largest 超期天数 among those (0 when there is none); for an empty record set
\* nothing is computed or rendered, and no error occurs.
C10_MetricsAreReduction ==
    LET rows == panel.shown
        m == panel.metrics
    IN  /\ m.rendered <=> rows # <<>>
        /\ m.rendered =>
              /\ m.total = SumOver(rows, "XuQiuLiang", DOMAIN rows)
              /\ m.shipped = SumOver(rows, "YiFaLiang", DOMAIN rows)
              /\ m.pending = SumOver(rows, "ShengYuLiang", DOMAIN rows)
              /\ m.overdue = Cardinality(OverdueIdx(rows))
              /\ IF OverdueIdx(rows) = {} THEN m.max_overdue = 0
                 ELSE /\ \E i \in OverdueIdx(rows) :
                            m.max_overdue = rows[i]["ChaoQiTianShu"]
                      /\ \A i \in OverdueIdx(rows) :
                            m.max_overdue >= rows[i]["ChaoQiTianShu"]
        /\ panel.error = "NoData" => ~m.rendered

\* C10, witness: metrics rendered for two records, one overdue and one not,
\* one of them shipped beyond its demand.
C10_Witness ==
    /\ panel.metrics.rendered
    /\ Len(panel.shown) = 2
    /\ Cardinality(OverdueIdx(panel.shown)) = 1
    /\ \E i \in DOMAIN panel.shown :
          panel.shown[i]["YiFaLiang"] > panel.shown[i]["XuQiuLiang"]

\* C10 (as claimed): as above, but for the empty record set all five values
\* are 0.
C10_EmptySetAllZero ==
    panel.error = "NoData" =>
        /\ panel.metrics.rendered
        /\ panel.metrics.total = 0
        /\ panel.metrics.shipped = 0
        /\ panel.metrics.pending = 0
        /\ panel.metrics.overdue = 0
        /\ panel.metrics.max_overdue = 0

\* --------------------------------------------- claims on the categorical fields
\* A raw cell that is blank, None or nan-like: a null object, the text "nan" or
\* "None", or nothing but spaces.
IsBlankCell(cell) ==
    \/ cell \in {FloatNaN, NoneObj, NAN, NONE}
    \/ \A i \in DOMAIN cell : cell[i] = " "

\* The raw cell of a logistics row; a column the sheet lacks holds "".
RawLogisticsCell(i, h) == IF h \in lsheet.columns THEN lsheet.rows[i][h] ELSE <<>>

\* C8 (as amended): a blank, None or nan-like cell becomes a non-empty default
\* label in the material and department columns of the order table and in the
\* material and supplier columns of the logistics table; in the department
\* column of the logistics table it becomes the empty string, as does the label
\* 未指定项目部 itself, and the project selector offers neither.
C8_BlankCategoryLabels ==
    /\ Len(LoadedRows) = Len(sheet.rows) =>
          \A i \in DOMAIN LoadedRows :
              /\ LoadedRows[i]["WuZiMingCheng"] # <<>>
              /\ LoadedRows[i][PROJECT_COLUMN] # <<>>
              /\ IsBlankCell(sheet.rows[i]["WuZiMingCheng"])
                    => LoadedRows[i]["WuZiMingCheng"] = <<"WeiZhiDingWuZi">>
              /\ IsBlankCell(sheet.rows[i]["Col17"])
                    => LoadedRows[i][PROJECT_COLUMN] = <<"WeiZhiDingXiangMuBu">>
    /\ \A i \in DOMAIN logistics_df.rows :
          /\ logistics_df.rows[i]["WuZiMingCheng"] # <<>>
          /\ logistics_df.rows[i]["GangChang"] # <<>>
          /\ IsBlankCell(RawLogisticsCell(i, "WuZiMingCheng"))
                => logistics_df.rows[i]["WuZiMingCheng"] = <<"WeiZhiDingWuZi">>
          /\ IsBlankCell(RawLogisticsCell(i, "GangChang"))
                => logistics_df.rows[i]["GangChang"] = <<"WeiZhiDingGangChang">>
          /\ ( \/ IsBlankCell(RawLogisticsCell(i, "XiangMuBu"))
               \/ RawLogisticsCell(i, "XiangMuBu") = <<"WeiZhiDingXiangMuBu">> )
                => logistics_df.rows[i]["XiangMuBu"] = <<>>
    /\ <<>> \notin options
    /\ <<"WeiZhiDingXiangMuBu">> \notin options

\* C8, witness: the order table holds a record whose empty material and
\* department became the default labels, and the logistics table holds a
\* record whose empty department became the empty string beside a record of a
\* named department, which the selector offers.
C8_Witness ==
    /\ \E i \in DOMAIN LoadedRows :
          /\ LoadedRows[i]["WuZiMingCheng"] = <<"WeiZhiDingWuZi">>
          /\ LoadedRows[i][PROJECT_COLUMN] = <<"WeiZhiDingXiangMuBu">>
    /\ \E i \in DOMAIN logistics_df.rows :
          /\ RawLogisticsCell(i, "XiangMuBu") = FloatNaN
          /\ logistics_df.rows[i]["XiangMuBu"] = <<>>
          /\ logistics_df.rows[i]["GangChang"] = <<"WeiZhiDingGangChang">>
    /\ options = {HQ, <<"P">>}

\* C8 (as claimed): in the order table and in the logistics table a blank,
\* None or nan-like categorical cell is never an empty string after the load.
C8_NeverEmptyString ==
    /\ \A i \in DOMAIN LoadedRows :
          /\ LoadedRows[i]["WuZiMingCheng"] # <<>>
          /\ LoadedRows[i][PROJECT_COLUMN] # <<>>
    /\ \A i \in DOMAIN logistics_df.rows :
          \A h \in {"WuZiMingCheng", "GangChang", "XiangMuBu"} \cap lsheet.columns :
              IsBlankCell(lsheet.rows[i][h]) => logistics_df.rows[i][h] # <<>>

\* ------------------------------------------------ claims on the status overlay
\* C4 (as claimed): a saved call that sets a record's status to Unset (None or
\* a blank selection) leaves no row for that record_id in the store.
C4_UnsetRemovesEntry ==
    (last.result # "None" /\ last.save_ok /\ last.new_status = EmptyStr)
        => Stored(file, last.record_id) = Absent

\* C5: a notification is attempted at most once per transition of a record's
\* stored status into 未到货: per record the posts never outnumber the
\* transitions, and a call posts only when it sets 未到货 on a record whose
\* stored status was not 未到货, and its save succeeded.
C5_NotifyOncePerTransition ==
    /\ \A r \in DOMAIN posts : posts[r] <= transitions[r]
    /\ last.attempted =>
          /\ last.new_status = WeiDaoHuo
          /\ last.prev # WeiDaoHuo
          /\ last.save_ok

\* C5, witness: a record already stored and notified as 未到货 is saved as
\* 未到货 again, and nothing is posted.
C5_Witness ==
    /\ last.result = "True"
    /\ last.new_status = WeiDaoHuo
    /\ last.prev = WeiDaoHuo
    /\ ~last.attempted
    /\ posts[last.record_id] = 1
    /\ transitions[last.record_id] = 1

\* C6: the outcome of update_logistics_status depends on persistence alone:
\* when the save succeeds the call returns True and the new status is stored,
\* whatever the notification did; when the save fails the call returns False,
\* the store is as before and no notification is attempted.
C6_OutcomeFollowsPersistence ==
    last.result # "None" =>
        /\ last.save_ok =>
              /\ last.result = "True"
              /\ Stored(file, last.record_id) = last.new_status
        /\ ~last.save_ok =>
              /\ last.result = "False"
              /\ ~last.attempted
              /\ Stored(file, last.record_id) = last.prev

\* C6, witness: the save succeeded, the post raised, and the call returned
\* True with 未到货 stored.
C6_Witness ==
    /\ last.save_ok
    /\ last.attempted
    /\ last.post = "Exception"
    /\ last.result = "True"
    /\ Stored(file, last.record_id) = WeiDaoHuo

\* C7 (as claimed): when concurrent calls on different record_ids have all
\* saved, the store holds the status each of them set, and no record was
\* notified more often than its stored status turned into 未到货.
C7_ConcurrentUpdatesAllKept ==
    ( /\ DOMAIN writers # {}
      /\ \A w \in DOMAIN writers : writers[w].pc = "done" /\ writers[w].save_ok )
    => /\ \A w \in DOMAIN writers :
             Stored(file, writers[w].record_id) = writers[w].new_status
       /\ \A r \in DOMAIN posts : posts[r] <= transitions[r]

\* C9 (as claimed): the rendered merge holds one row per logistics record, in
\* order, with the stored status where the store has an entry and otherwise
\* the empty status the merge gives against an empty store.
C9_LeftJoinOneEmptyStatus ==
    view.rendered =>
        /\ Len(view.rows) = Len(logistics_df.rows)
        /\ \A i \in DOMAIN view.rows :
               LET rid == logistics_df.rows[i]["record_id"]
               IN  /\ view.rows[i].record_id = rid
                   /\ view.rows[i].DaoHuoZhuangTai =
                          IF Stored(view.file, rid) # Absent
                          THEN Stored(view.file, rid)
                          ELSE merge_logistics_with_status(
                                   logistics_df, NoStatusFile)[i].DaoHuoZhuangTai

\* ------------------------------------------------- claims on the dropped rows
\* The rows of the sheet whose order time does not parse.
UndatedIdx == {i \in DOMAIN sheet.rows : to_datetime(sheet.rows[i]["XiaDanShiJian"]) = NaT}

\* C12 (as claimed): of a sheet that has every mandatory column, load_data
\* drops the rows whose order time does not parse and no other row: the output
\* holds the other rows, in order, as many as the input rows less the undated
\* ones, and every record of the output has an order time.
C12_OnlyUndatedRowsDropped ==
    ( /\ sheet.found
      /\ Range(REQUIRED_COLS) \subseteq sheet.columns
      /\ loaded.error # "NotLoaded" )
    => /\ Len(loaded.df.rows) = Len(sheet.rows) - Cardinality(UndatedIdx)
       /\ \A i \in DOMAIN loaded.df.rows :
              /\ loaded.df.rows[i]["XiaDanShiJian"] # NaT
              /\ loaded.df.rows[i]["XiaDanShiJian"] = DatedRows[i]["XiaDanShiJian"]

\* --------------------------------------------- claims on the header vocabulary
\* The sheet as read, and as the reconciliation leaves it.
RawFrame == [columns |-> sheet.columns, rows |-> sheet.rows]
Reconciled == Reconcile(RawFrame, 1)

\* The header of the sheet that field k is read from: the canonical name when
\* the sheet has it, else the first of its aliases the sheet has, else "Missing".
SourceHeader(k) ==
    LET m == BACKUP_COL_MAPPING[k]
        present == {j \in DOMAIN m.alts : m.alts[j] \in sheet.columns}
    IN  IF m.std \in sheet.columns THEN m.std
        ELSE IF present = {} THEN "Missing"
        ELSE m.alts[CHOOSE j \in present : \A i \in present : j <= i]

\* The fields the sheet offers under no header.
MissingFields ==
    {BACKUP_COL_MAPPING[k].std : k \in {k \in DOMAIN BACKUP_COL_MAPPING :
                                            SourceHeader(k) = "Missing"}}

\* The header of the sheet a reconciled column comes from.
OriginOf(h) ==
    IF \E k \in DOMAIN BACKUP_COL_MAPPING : BACKUP_COL_MAPPING[k].std = h
    THEN SourceHeader(CHOOSE k \in DOMAIN BACKUP_COL_MAPPING :
                          BACKUP_COL_MAPPING[k].std = h)
    ELSE h

\* C11: when a mandatory field is still missing after the reconciliation,
\* load_data reports exactly the missing fields and returns the empty frame;
\* it returns records only when every mandatory field is present.
C11_MissingFieldFailsWhole ==
    (sheet.found /\ loaded.error # "NotLoaded") =>
        LET miss == {c \in Range(REQUIRED_COLS) : c \notin Reconciled.columns}
        IN  /\ miss = MissingFields \cap Range(REQUIRED_COLS)
            /\ miss # {} =>
                  /\ loaded.error = "MissingCols"
                  /\ Range(loaded.missing) = miss
                  /\ Len(loaded.missing) = Cardinality(miss)
                  /\ loaded.df = EmptyFrame
            /\ loaded.error = "MissingCols" => miss # {}
            /\ loaded.df.rows # <<>> =>
                  /\ miss = {}
                  /\ Range(REQUIRED_COLS) \subseteq loaded.df.columns

\* C11, witness: a load of a sheet that offers two mandatory fields under no
\* header and a third under an alias reported the two and returned nothing.
C11_Witness ==
    /\ loaded.error = "MissingCols"
    /\ loaded.missing = <<"BiaoDuanMingCheng", "XuQiuLiang">>
    /\ SourceHeader(2) = "PinMing"
    /\ loaded.df = EmptyFrame
    /\ sheet.rows # <<>>

\* C13: for each canonical field that is no header of the sheet, the first
\* alias of its list that is a header is renamed to the canonical name and no
\* other alias is; a canonical field that is a header keeps its own column; a
\* canonical field with no alias present stays missing; every other column
\* is left as it was. A load reads each field from that column.
C13_FirstAliasRenamed ==
    sheet.found =>
        /\ Reconciled.columns =
              {h \in sheet.columns :
                  \A k \in DOMAIN BACKUP_COL_MAPPING :
                      h = SourceHeader(k) => h = BACKUP_COL_MAPPING[k].std}
              \cup {BACKUP_COL_MAPPING[k].std :
                       k \in {k \in DOMAIN BACKUP_COL_MAPPING :
                                 SourceHeader(k) # "Missing"}}
        /\ Len(Reconciled.rows) = Len(sheet.rows)
        /\ \A i \in DOMAIN Reconciled.rows : \A h \in Reconciled.columns :
               Reconciled.rows[i][h] = sheet.rows[i][OriginOf(h)]
        /\ loaded.error = "None" =>
               \A i \in DOMAIN loaded.df.rows :
                   /\ loaded.df.rows[i]["BiaoDuanMingCheng"] =
                          sheet.rows[i][SourceHeader(1)]
                   /\ loaded.df.rows[i]["XiaDanShiJian"] =
                          sheet.rows[i][SourceHeader(4)]

\* C13, witness: a loaded sheet with only the second and third alias of 标段名称
\* (the second was renamed, the third kept), 物资名称 beside its first alias
\* (both kept), and 下单时间 under its last alias.
C13_Witness ==
    /\ loaded.error = "None"
    /\ sheet.columns \cap Range(FieldHeaders(1)) = {"GongChengMingCheng", "BiaoDuan"}
    /\ sheet.columns \cap Range(FieldHeaders(2)) = {"WuZiMingCheng", "CaiLiaoMingCheng"}
    /\ SourceHeader(4) = "LuRuShiJian"
    /\ \A i \in DOMAIN loaded.df.rows :
          /\ loaded.df.rows[i]["BiaoDuanMingCheng"] = <<"C">>
          /\ loaded.df.rows[i]["BiaoDuan"] = <<"D">>
          /\ loaded.df.rows[i]["CaiLiaoMingCheng"] = <<"B">>
          /\ loaded.df.rows[i]["XiaDanShiJian"] = 3
    /\ loaded.df.rows # <<>>

\* ------------------------------------------------------ claims on the session
\* main shows the data panel of the headquarters.
HQPanel == session.project_selected /\ session.selected_project = HQ

\* C14: the data panel is shown for the headquarters only after 验证密码 with
\* the right password: whenever it is shown, the button that last set
\* project_selected was 验证密码 and the password matched; confirming another
\* project, 返回 or a wrong password never lead there.
C14_HQPanelOnlyAfterPassword ==
    /\ HQPanel => session.entered_by = "VerifyOk"
    /\ session.password_error => ~session.project_selected
    /\ (session.project_selected /\ session.entered_by = "Confirm")
          => session.selected_project # HQ

\* C14, witness: the headquarters' panel is shown after 验证密码 with the right
\* password, in a session whose selector also offers another project.
C14_Witness ==
    /\ HQPanel
    /\ session.entered_by = "VerifyOk"
    /\ ~session.need_password
    /\ <<"P">> \in options

====
